---- MODULE Spec2Model ----
(***************************************************************************)
(* humtemplogger.py: the Sensor and Logger classes and the sampling loop   *)
(* of main.  Temperatures are whole degrees Celsius; Fahrenheit values are *)
(* kept in fifths of a degree (F * 5), so that c * 9/5 + 32 is the integer *)
(* 9 * c + 160; a mean is the pair (sum, n) and NaN is the pair with n = 0.*)
(***************************************************************************)
EXTENDS Integers, Sequences, FiniteSets, TLC

VARIABLES
    args,       \* the command line (sys.argv), a sequence of strings
    pc,         \* position of main: start, pins, loop, sample, flush,
                \* cleanup, done, crashed; "client" for a Sensor used alone
    i,          \* index of the for loop that is running (1-based)
    sen,        \* main's local sen: index of the last Sensor built, 0 = unbound
    sensors,    \* the Sensor objects, in order of construction
    loggers,    \* main's list loggers; a Logger names its Sensor by index
    readings,   \* main's counter of cycles left
    samples,    \* main's counter of ticks left in the cycle
    files,      \* durable content of each log file, by pin of its name
    exc,        \* the exception that ended main, "None" while none has
    ret,        \* main's return value, None until it returns
    lastPoll,   \* history: the last Sensor.poll call and the state it left
    hist,       \* history per Logger: readings polled this cycle, ticks, rows
    result,     \* Sensor used alone: what the last method call returned
    pending     \* Sensor used alone: detail of the last failure not yet taken

vars == <<args, pc, i, sen, sensors, loggers, readings, samples, files, exc,
          ret, lastPoll, hist, result, pending>>

(***************************************************************************)
(* Bounds.  The source runs 5 cycles of 10 samples; the model runs fewer.  *)
(***************************************************************************)
Cycles == 2
SamplesPerCycle == 2
\* a Sensor used alone: consecutive get_error calls are counted up to here
MaxTakes == 2

(***************************************************************************)
(* Values.                                                                 *)
(***************************************************************************)
None == -9999                  \* Python's None where a number is expected
NoMsg == "None"                \* Python's None where an error is expected
EmptyStr == ""

NaN == [sum |-> 0, n |-> 0]

IsNaN(m) == m.n = 0

\* the command lines tried: no argument, help, a prefix only, and pins
ArgLists ==
    { <<"humtemplogger">>,
      <<"humtemplogger", "--help">>,
      <<"humtemplogger", "-h">>,
      <<"humtemplogger", "beehive">>,
      <<"humtemplogger", "beehive", "4">>,
      <<"humtemplogger", "beehive", "99">>,
      <<"humtemplogger", "beehive", "99", "-1">>,
      <<"humtemplogger", "beehive", "99", "4">>,
      <<"humtemplogger", "beehive", "17", "27">>,
      <<"humtemplogger", "beehive", "17", "99", "27">> }

\* int(gpio) on the pin arguments tried
int(s) ==
    CASE s = "4" -> 4
      [] s = "17" -> 17
      [] s = "27" -> 27
      [] s = "99" -> 99
      [] s = "-1" -> 0 - 1

\* the pins a log file name could be formed from: every pin argument tried
FilePins == {0 - 1, 4, 17, 27, 99}

\* what the DHT22 driver can answer to one poll: a reading, or a RuntimeError
\* raised by the temperature read (temp = None) or by the humidity read
Reading(t, h) ==
    [ok |-> TRUE, temp |-> t, humidity |-> h, err |-> NoMsg, type |-> "None"]

Failure(t, e) ==
    [ok |-> FALSE, temp |-> t, humidity |-> None, err |-> e,
     type |-> "RuntimeError"]

RichOutcomes ==
    { Reading(0 - 1, 40), Reading(0, 55), Reading(2, 60),
      Failure(None, "e1"), Failure(2, "e2") }

PoorOutcomes == { Reading(1, 50), Failure(None, "e1") }

\* the sensor on the default pin answers in full; the others are kept small
DriverOutcomes(pin) == IF pin = 4 THEN RichOutcomes ELSE PoorOutcomes

(***************************************************************************)
(* class Sensor                                                            *)
(***************************************************************************)
ValidPin_noUpper(gpio) == gpio >= 0

\* Sensor.__init__, the range test of lines 45-54
ValidPin(gpio) == gpio >= 0 /\ gpio <= 27

poll_noflag(s, o) ==
    LET read == IF o.temp = None THEN s ELSE [s EXCEPT !.temp = o.temp]
    IN  IF o.ok
        THEN [read EXCEPT !.humidity = o.humidity]
        ELSE [read EXCEPT !.temp = None, !.humidity = None,
                          !.error_message = o.err]

\* Sensor.poll: the two driver reads in a try, the except branch on failure
poll(s, o) ==
    LET read == IF o.temp = None THEN s ELSE [s EXCEPT !.temp = o.temp]
    IN  IF o.ok
        THEN [read EXCEPT !.humidity = o.humidity]
        ELSE [read EXCEPT !.temp = None, !.humidity = None,
                          !.error = TRUE, !.error_message = o.err]

poll_raises_uncaught(o) == IF o.ok THEN "None" ELSE o.type

\* what poll raises: its except clause takes a RuntimeError and nothing else
poll_raises(o) ==
    IF o.ok \/ o.type = "RuntimeError" THEN "None" ELSE o.type

\* Python truth of a number or None
Truthy(x) == x # None /\ x # 0

\* a raw value taken as degrees Fahrenheit, in fifths
Fifths(x) == IF x = None THEN None ELSE 5 * x

get_tempf(s) == IF Truthy(s.temp) THEN 9 * s.temp + 160 ELSE Fifths(s.temp)

get_tempc(s) == s.temp

get_humidity(s) == s.humidity

get_error_keep(s) ==
    [sensor |-> [s EXCEPT !.error = FALSE], result |-> s.error_message]

get_error_noreset(s) ==
    [sensor |-> [s EXCEPT !.error_message = NoMsg],
     result |-> s.error_message]

\* Sensor.get_error: the sensor after the call and the value returned
get_error(s) ==
    [sensor |-> [s EXCEPT !.error = FALSE, !.error_message = NoMsg],
     result |-> s.error_message]

\* Sensor.exit: the driver's sensor is closed
exit(s) == [s EXCEPT !.exited = TRUE]

\* Sensor.__init__ for a valid pin: the fields set before the first poll
\* (temp and humidity are set by poll only; devID is the pin's name)
Fields(gpio) ==
    [pin |-> gpio, devID |-> gpio, temp |-> None, humidity |-> None,
     error |-> FALSE, error_message |-> NoMsg, exited |-> FALSE]

\* Sensor.__init__ for a valid pin: the fields, then the first poll
Sensor(gpio, o) == poll(Fields(gpio), o)

(***************************************************************************)
(* class Logger                                                            *)
(***************************************************************************)
Header ==
    [kind |-> "header", devID |-> 0, tempc |-> NaN, tempf |-> NaN,
     humidity |-> NaN]

Logger_always_header(sensor, logfile, opened, size) ==
    [sensor |-> sensor, datafile |-> logfile,
     tempc |-> <<>>, tempf |-> <<>>, humidity |-> <<>>,
     error_message |-> EmptyStr,
     f |-> IF opened THEN "open" ELSE "unset",
     buf |-> IF opened THEN <<Header>> ELSE <<>>]

\* Logger.__init__: open(logfile, 'a+') may fail; the except passes, and then
\* self.f is never set.  The header goes to the write buffer of a file of
\* size 0.
Logger(sensor, logfile, opened, size) ==
    [sensor |-> sensor, datafile |-> logfile,
     tempc |-> <<>>, tempf |-> <<>>, humidity |-> <<>>,
     error_message |-> EmptyStr,
     f |-> IF opened THEN "open" ELSE "unset",
     buf |-> IF opened /\ size = 0 THEN <<Header>> ELSE <<>>]

read_sensor_skew(lg, s, o) ==
    LET p == poll(s, o)
    IN  IF ~p.error
        THEN [logger |-> [lg EXCEPT !.tempc = Append(@, get_tempc(p)),
                                    !.tempf = Append(@, get_tempf(p)),
                                    !.humidity =
                                       IF get_humidity(p) = 0 THEN @
                                       ELSE Append(@, get_humidity(p))],
              sensor |-> p]
        ELSE [logger |-> [lg EXCEPT !.error_message = get_error(p).result,
                                    !.tempc = Append(@, get_tempc(p))],
              sensor |-> get_error(p).sensor]

\* Logger.read_sensor: the logger and its sensor after one tick
read_sensor(lg, s, o) ==
    LET p == poll(s, o)
    IN  IF ~p.error
        THEN [logger |-> [lg EXCEPT !.tempc = Append(@, get_tempc(p)),
                                    !.tempf = Append(@, get_tempf(p)),
                                    !.humidity = Append(@, get_humidity(p))],
              sensor |-> p]
        ELSE [logger |-> [lg EXCEPT !.error_message = get_error(p).result],
              sensor |-> get_error(p).sensor]

RECURSIVE Sum(_)
Sum(q) == IF q = <<>> THEN 0 ELSE Head(q) + Sum(Tail(q))

\* statistics.mean as the pair (sum, n); Logger.average_samples
mean(q) == [sum |-> Sum(q), n |-> Len(q)]

average_samples(q) == IF Len(q) > 0 THEN mean(q) ELSE NaN

HasNone(q) == \E k \in 1..Len(q) : q[k] = None

\* the row log_data formats (date and time left out)
Row(lg, s) ==
    [kind |-> "row", devID |-> s.devID,
     tempc |-> average_samples(lg.tempc),
     tempf |-> average_samples(lg.tempf),
     humidity |-> average_samples(lg.humidity)]

\* Logger.log_data on a Logger whose file is open: write, then flush
log_data(lg, s) == [lg EXCEPT !.buf = <<>>]

Flushed_nothing(lg, s) == <<>>

\* what self.f.flush() puts in the file: all that is buffered, and the row
Flushed(lg, s) == lg.buf \o <<Row(lg, s)>>

\* what log_data raises, "None" when it returns
log_data_raises(lg) ==
    IF HasNone(lg.tempc) \/ HasNone(lg.tempf) \/ HasNone(lg.humidity)
    THEN "TypeError"
    ELSE IF lg.f = "unset" THEN "AttributeError" ELSE "None"

\* Logger.__del__: self.f.close() writes out what is buffered; without
\* self.f it raises AttributeError, which a finalizer does not propagate
Deleted(lg) ==
    IF lg.f = "open" THEN [lg EXCEPT !.f = "closed", !.buf = <<>>] ELSE lg

\* the files after the finalizers of all the loggers of a list have run
RECURSIVE CloseFiles(_, _)
CloseFiles(lgs, fs) ==
    IF lgs = <<>>
    THEN fs
    ELSE CloseFiles(Tail(lgs),
            IF Head(lgs).f = "open"
            THEN [fs EXCEPT ![Head(lgs).datafile] = @ \o Head(lgs).buf]
            ELSE fs)

(***************************************************************************)
(* History                                                                 *)
(***************************************************************************)
NoPoll == [idx |-> 0, ok |-> TRUE, err |-> NoMsg, wasError |-> FALSE,
           after |-> Fields(0)]

NoCall == [op |-> "none", value |-> NoMsg, num |-> None, nth |-> 0]

Polled(idx, s, o) ==
    [idx |-> idx, ok |-> o.ok, err |-> o.err, wasError |-> s.error,
     after |-> poll(s, o)]

\* the reading a successful poll leaves in the sensor, as its getters give it
Taken(s, o) ==
    <<get_tempc(poll(s, o)), get_humidity(poll(s, o)), get_tempf(poll(s, o))>>

NoHist == [polls |-> <<>>, ticks |-> 0, rows |-> <<>>, cycle |-> 1, total |-> 0]

\* what earlier runs can have left in a log file: nothing, the header alone
\* (a run that ended before its first flush), the header and a row
OldFiles == { <<>>, <<Header>>, <<Header, [Header EXCEPT !.kind = "row"]>> }

(***************************************************************************)
(* main                                                                    *)
(***************************************************************************)
Init ==
    /\ args \in ArgLists
    /\ pc = "start"
    /\ i = 0
    /\ sen = 0
    /\ sensors = <<>>
    /\ loggers = <<>>
    /\ readings = 0
    /\ samples = 0
    /\ \E old \in OldFiles : files = [p \in FilePins |-> old]
    /\ exc = "None"
    /\ ret = None
    /\ lastPoll = NoPoll
    /\ hist = <<>>
    /\ result = NoCall
    /\ pending = NoMsg

IsHelp == Len(args) > 1 /\ args[2] \in {"--help", "-h"}

\* lines 187-192
Help ==
    /\ pc = "start"
    /\ IsHelp
    /\ pc' = "done"
    /\ ret' = 0
    /\ UNCHANGED <<args, i, sen, sensors, loggers, readings, samples, files,
                   exc, lastPoll, hist, result, pending>>

\* lines 194-203: without a prefix the print reads logfile, not yet bound
Prefix ==
    /\ pc = "start"
    /\ ~IsHelp
    /\ IF Len(args) > 1
       THEN /\ pc' = "pins"
            /\ i' = 3
            /\ exc' = exc
       ELSE /\ pc' = "crashed"
            /\ i' = i
            /\ exc' = "UnboundLocalError"
    /\ UNCHANGED <<args, sen, sensors, loggers, readings, samples, files,
                   ret, lastPoll, hist, result, pending>>

\* lines 207-216: one pass of the for loop over the pin arguments
Construct ==
    /\ pc = "pins"
    /\ Len(args) > 2
    /\ i <= Len(args)
    /\ LET gpio == int(args[i])
           n == Len(sensors) + 1
       IN  IF ValidPin(gpio)
           THEN \E o \in DriverOutcomes(gpio), opened \in BOOLEAN :
                   LET s == Fields(gpio)
                   IN  IF poll_raises(o) = "None"
                       THEN /\ sensors' = Append(sensors, Sensor(gpio, o))
                            /\ sen' = n
                            /\ loggers' = Append(loggers,
                                   Logger(n, gpio, opened, Len(files[gpio])))
                            /\ lastPoll' = Polled(n, s, o)
                            /\ hist' = Append(hist, NoHist)
                            /\ i' = i + 1
                            /\ pc' = IF i = Len(args) THEN "loop" ELSE "pins"
                            /\ exc' = exc
                       ELSE /\ pc' = "crashed"
                            /\ exc' = poll_raises(o)
                            /\ UNCHANGED <<sensors, sen, loggers, lastPoll,
                                           hist, i>>
           ELSE /\ i' = i + 1
                /\ pc' = IF i = Len(args) THEN "loop" ELSE "pins"
                /\ UNCHANGED <<sensors, sen, loggers, lastPoll, hist, exc>>
    /\ UNCHANGED <<args, readings, samples, files, ret, result, pending>>

\* lines 217-221: the default configuration reads sen, which is bound only
\* by the other branch
DefaultConfig ==
    /\ pc = "pins"
    /\ Len(args) <= 2
    /\ IF sen = 0
       THEN /\ pc' = "crashed"
            /\ exc' = "UnboundLocalError"
            /\ UNCHANGED <<loggers, hist>>
       ELSE \E opened \in BOOLEAN :
               /\ loggers' = Append(loggers,
                      Logger(sen, sensors[sen].devID, opened,
                             Len(files[sensors[sen].devID])))
               /\ hist' = Append(hist, NoHist)
               /\ pc' = "loop"
               /\ exc' = exc
    /\ UNCHANGED <<args, i, sen, sensors, readings, samples, files, ret,
                   lastPoll, result, pending>>

\* lines 225-228: the counters as the loops are entered
StartLoop ==
    /\ pc = "loop"
    /\ readings' = Cycles
    /\ samples' = SamplesPerCycle
    /\ i' = 1
    /\ pc' = IF Cycles > 0 THEN "sample" ELSE "cleanup"
    /\ UNCHANGED <<args, sen, sensors, loggers, files, exc, ret, lastPoll,
                   hist, result, pending>>

\* lines 231-232: logger.read_sensor() for the next logger of the tick
ReadSensor ==
    /\ pc = "sample"
    /\ i <= Len(loggers)
    /\ LET k == loggers[i].sensor
       IN  \E o \in DriverOutcomes(sensors[k].pin) :
              LET r == read_sensor(loggers[i], sensors[k], o)
              IN  IF poll_raises(o) = "None"
                  THEN /\ loggers' = [loggers EXCEPT ![i] = r.logger]
                       /\ sensors' = [sensors EXCEPT ![k] = r.sensor]
                       /\ lastPoll' = Polled(k, sensors[k], o)
                       /\ hist' = [hist EXCEPT
                             ![i].ticks = @ + 1,
                             ![i].total = @ + 1,
                             ![i].polls = IF o.ok
                                          THEN Append(@, Taken(sensors[k], o))
                                          ELSE @]
                       /\ i' = i + 1
                       /\ UNCHANGED <<pc, exc>>
                  ELSE /\ pc' = "crashed"
                       /\ exc' = poll_raises(o)
                       /\ UNCHANGED <<loggers, sensors, lastPoll, hist, i>>
    /\ UNCHANGED <<args, sen, readings, samples, files, ret, result, pending>>

Sleep_inside ==
    /\ pc = "sample"
    /\ i > 1
    /\ samples' = samples - 1
    /\ i' = 1
    /\ pc' = IF samples - 1 > 0 THEN "sample" ELSE "flush"
    /\ UNCHANGED <<args, sen, sensors, loggers, readings, files, exc, ret,
                   lastPoll, hist, result, pending>>

Sleep_retry ==
    /\ pc = "sample"
    /\ i > Len(loggers)
    /\ samples' = IF lastPoll.ok THEN samples - 1 ELSE samples
    /\ i' = 1
    /\ pc' = IF samples' > 0 THEN "sample" ELSE "flush"
    /\ UNCHANGED <<args, sen, sensors, loggers, readings, files, exc, ret,
                   lastPoll, hist, result, pending>>

\* lines 235-242: the end of a tick: count it and sleep
Sleep ==
    /\ pc = "sample"
    /\ i > Len(loggers)
    /\ samples' = samples - 1
    /\ i' = 1
    /\ pc' = IF samples - 1 > 0 THEN "sample" ELSE "flush"
    /\ UNCHANGED <<args, sen, sensors, loggers, readings, files, exc, ret,
                   lastPoll, hist, result, pending>>

\* lines 245-246: logger.log_data() for the next logger
LogData ==
    /\ pc = "flush"
    /\ i <= Len(loggers)
    /\ LET lg == loggers[i]
           s == sensors[lg.sensor]
       IN  IF log_data_raises(lg) = "None"
           THEN /\ loggers' = [loggers EXCEPT ![i] = log_data(lg, s)]
                /\ files' = [files EXCEPT
                      ![lg.datafile] = @ \o Flushed(lg, s)]
                /\ hist' = [hist EXCEPT
                      ![i].rows = Append(@, Row(lg, s)),
                      ![i].ticks = 0]
                /\ i' = i + 1
                /\ UNCHANGED <<pc, exc>>
           ELSE /\ pc' = "crashed"
                /\ exc' = log_data_raises(lg)
                /\ UNCHANGED <<loggers, files, hist, i>>
    /\ UNCHANGED <<args, sen, sensors, readings, samples, ret, lastPoll,
                   result, pending>>

\* lines 249, 226-228: count the cycle and start the next one
NextCycle ==
    /\ pc = "flush"
    /\ i > Len(loggers)
    /\ readings' = readings - 1
    /\ i' = 1
    /\ IF readings - 1 > 0
       THEN /\ pc' = "sample"
            /\ samples' = SamplesPerCycle
       ELSE /\ pc' = "cleanup"
            /\ samples' = samples
    /\ hist' = [j \in 1..Len(hist) |->
                   [hist[j] EXCEPT !.polls = <<>>, !.cycle = @ + 1]]
    /\ UNCHANGED <<args, sen, sensors, loggers, files, exc, ret, lastPoll,
                   result, pending>>

\* lines 252-255: del logger unbinds the loop variable only, no Sensor.exit
\* is called; main returns 0, and as its frame goes the list loggers is
\* dropped and each Logger's __del__ runs
Cleanup ==
    /\ pc = "cleanup"
    /\ pc' = "done"
    /\ ret' = 0
    /\ loggers' = [j \in 1..Len(loggers) |-> Deleted(loggers[j])]
    /\ files' = CloseFiles(loggers, files)
    /\ UNCHANGED <<args, i, sen, sensors, readings, samples, exc, lastPoll,
                   hist, result, pending>>

\* lines 257-259: an exception leaves main and the interpreter exits; the
\* finalizers run then.  (A process killed instead leaves the files as they
\* are in the state it is killed in.)
ProcessExit ==
    /\ pc = "crashed"
    /\ pc' = "exited"
    /\ loggers' = [j \in 1..Len(loggers) |-> Deleted(loggers[j])]
    /\ files' = CloseFiles(loggers, files)
    /\ UNCHANGED <<args, i, sen, sensors, readings, samples, exc, ret,
                   lastPoll, hist, result, pending>>

Next ==
    \/ Help
    \/ Prefix
    \/ Construct
    \/ DefaultConfig
    \/ StartLoop
    \/ ReadSensor
    \/ Sleep
    \/ LogData
    \/ NextCycle
    \/ Cleanup
    \/ ProcessExit

Spec == Init /\ [][Next]_vars

\* the interpreter keeps running main's one thread: time.sleep(1) returns
\* and every statement is followed by the next
FairSpec == Spec /\ WF_vars(Next)

(***************************************************************************)
(* A Sensor used alone: built on the default pin, then polled and asked    *)
(* for its error in any order.                                             *)
(***************************************************************************)
SensorInit ==
    \E o \in RichOutcomes :
       /\ args = <<"humtemplogger">>
       /\ pc = "client"
       /\ i = 0
       /\ sen = 1
       /\ sensors = <<Sensor(4, o)>>
       /\ loggers = <<>>
       /\ readings = 0
       /\ samples = 0
       /\ files = [p \in FilePins |-> <<>>]
       /\ exc = poll_raises(o)
       /\ ret = None
       /\ lastPoll = Polled(1, Fields(4), o)
       /\ hist = <<>>
       /\ result = NoCall
       /\ pending = IF o.ok THEN NoMsg ELSE o.err

\* sen.poll()
ClientPoll ==
    /\ pc = "client"
    /\ \E o \in RichOutcomes :
          IF poll_raises(o) = "None"
          THEN /\ sensors' = [sensors EXCEPT ![sen] = poll(@, o)]
               /\ lastPoll' = Polled(sen, sensors[sen], o)
               /\ pending' = IF o.ok THEN pending ELSE o.err
               /\ result' = [op |-> "poll", value |-> NoMsg, num |-> None,
                             nth |-> 0]
               /\ UNCHANGED <<pc, exc>>
          ELSE /\ pc' = "crashed"
               /\ exc' = poll_raises(o)
               /\ UNCHANGED <<sensors, lastPoll, pending, result>>
    /\ UNCHANGED <<args, i, sen, loggers, readings, samples, files, ret, hist>>

\* sen.get_error()
ClientGetError ==
    /\ pc = "client"
    /\ sensors' = [sensors EXCEPT ![sen] = get_error(@).sensor]
    /\ result' = [op |-> "get_error", value |-> get_error(sensors[sen]).result,
                  num |-> None,
                  nth |-> IF result.nth < MaxTakes THEN result.nth + 1
                          ELSE MaxTakes]
    /\ pending' = NoMsg
    /\ UNCHANGED <<args, pc, i, sen, loggers, readings, samples, files, exc,
                   ret, lastPoll, hist>>

\* sen.get_tempf()
ClientGetTempf ==
    /\ pc = "client"
    /\ result' = [op |-> "get_tempf", value |-> NoMsg,
                  num |-> get_tempf(sensors[sen]), nth |-> result.nth]
    /\ UNCHANGED <<args, pc, i, sen, sensors, loggers, readings, samples,
                   files, exc, ret, lastPoll, hist, pending>>

\* sen.get_tempc()
ClientGetTempc ==
    /\ pc = "client"
    /\ result' = [op |-> "get_tempc", value |-> NoMsg,
                  num |-> get_tempc(sensors[sen]), nth |-> result.nth]
    /\ UNCHANGED <<args, pc, i, sen, sensors, loggers, readings, samples,
                   files, exc, ret, lastPoll, hist, pending>>

\* sen.get_humidity()
ClientGetHumidity ==
    /\ pc = "client"
    /\ result' = [op |-> "get_humidity", value |-> NoMsg,
                  num |-> get_humidity(sensors[sen]), nth |-> result.nth]
    /\ UNCHANGED <<args, pc, i, sen, sensors, loggers, readings, samples,
                   files, exc, ret, lastPoll, hist, pending>>

\* sen.exit(), the last call made on a Sensor
ClientExit ==
    /\ pc = "client"
    /\ pc' = "released"
    /\ sensors' = [sensors EXCEPT ![sen] = exit(@)]
    /\ result' = [op |-> "exit", value |-> NoMsg, num |-> None,
                  nth |-> result.nth]
    /\ UNCHANGED <<args, i, sen, loggers, readings, samples, files, exc, ret,
                   lastPoll, hist, pending>>

SensorNext ==
    \/ ClientExit
    \/ ClientPoll
    \/ ClientGetError
    \/ ClientGetTempf
    \/ ClientGetTempc
    \/ ClientGetHumidity

SensorSpec == SensorInit /\ [][SensorNext]_vars

(***************************************************************************)
(* Properties                                                              *)
(***************************************************************************)
Last(q) == q[Len(q)]

\* two means are the same number, or both NaN
SameMean(a, b) ==
    IF a.n = 0 \/ b.n = 0 THEN a.n = b.n ELSE a.sum * b.n = b.sum * a.n

Temps(polls) == [k \in 1..Len(polls) |-> polls[k][1]]

Hums(polls) == [k \in 1..Len(polls) |-> polls[k][2]]

Fahrs(polls) == [k \in 1..Len(polls) |-> polls[k][3]]

\* logger j has been flushed in the cycle that is running
FlushedNow(j) == pc = "flush" /\ j < i

\* C1: the row a flush writes is the average over exactly the readings
\* polled with success in that cycle's ticks, and NaN in all three fields
\* when there were none, in every cycle and whatever the first poll gave.
C1_CycleAverage ==
    \A j \in 1..Len(loggers) :
       FlushedNow(j) =>
          LET row == Last(hist[j].rows)
              polls == hist[j].polls
          IN  /\ SameMean(row.tempc, average_samples(Temps(polls)))
              /\ SameMean(row.tempf, average_samples(Fahrs(polls)))
              /\ SameMean(row.humidity, average_samples(Hums(polls)))

\* C2: the three sample lists are empty right after every log_data, and
\* never hold more than SamplesPerCycle values.
C2_WindowCleared ==
    \A j \in 1..Len(loggers) :
       /\ Len(loggers[j].tempc) <= SamplesPerCycle
       /\ Len(loggers[j].tempf) <= SamplesPerCycle
       /\ Len(loggers[j].humidity) <= SamplesPerCycle
       /\ FlushedNow(j) =>
             /\ loggers[j].tempc = <<>>
             /\ loggers[j].tempf = <<>>
             /\ loggers[j].humidity = <<>>

\* a step of ReadSensor on logger i
IsReadSensor == pc = "sample" /\ i <= Len(loggers) /\ i' = i + 1

\* C3: a tick whose poll succeeds appends exactly the reading just read to
\* the window, a tick whose poll fails appends nothing, whatever earlier
\* polls (the constructor's included) gave.
C3_AppendOnSuccess ==
    [][IsReadSensor =>
          IF lastPoll'.ok
          THEN /\ loggers'[i].tempc =
                     Append(loggers[i].tempc, lastPoll'.after.temp)
               /\ loggers'[i].humidity =
                     Append(loggers[i].humidity, lastPoll'.after.humidity)
               /\ Len(loggers'[i].tempf) = Len(loggers[i].tempf) + 1
          ELSE /\ loggers'[i].tempc = loggers[i].tempc
               /\ loggers'[i].tempf = loggers[i].tempf
               /\ loggers'[i].humidity = loggers[i].humidity]_vars

\* C4: every constructed Logger writes one row per cycle, each after exactly
\* SamplesPerCycle ticks, Cycles rows in the whole run, also in a cycle
\* whose polls all failed.
C4_FlushOncePerCycle ==
    \A j \in 1..Len(loggers) :
       /\ hist[j].ticks <= SamplesPerCycle
       /\ FlushedNow(j) => hist[j].ticks = 0
       /\ pc \in {"sample", "flush"} =>
             Len(hist[j].rows) =
                (Cycles - readings) + (IF FlushedNow(j) THEN 1 ELSE 0)
       /\ pc \in {"done", "crashed"} => Len(hist[j].rows) = Cycles

\* C5: after a poll that succeeds the sensor's error flag is false and a
\* get_error made next returns None.
C5_SuccessClearsError ==
    (lastPoll.idx > 0 /\ lastPoll.ok) =>
       /\ ~lastPoll.after.error
       /\ get_error(lastPoll.after).result = NoMsg

\* C6: every Fahrenheit value in a window is its Celsius value * 9/5 + 32
\* (negative, zero and positive), and so is every logged Fahrenheit average
\* that is not NaN.
C6_FahrenheitExact ==
    \A j \in 1..Len(loggers) :
       /\ \A k \in 1..Len(loggers[j].tempc) :
             loggers[j].tempf[k] = 9 * loggers[j].tempc[k] + 160
       /\ \A k \in 1..Len(hist[j].rows) :
             LET row == hist[j].rows[k]
             IN  ~IsNaN(row.tempf) =>
                    SameMean(row.tempf,
                             [sum |-> 9 * row.tempc.sum + 160 * row.tempc.n,
                              n |-> row.tempc.n])

\* C7: a driver failure in poll never reaches the caller: the poll returns
\* with the error flag set, the detail stored and temperature and humidity
\* cleared, and main is never ended by the driver's RuntimeError.
C7_FailureContained ==
    /\ exc # "RuntimeError"
    /\ (lastPoll.idx > 0 /\ ~lastPoll.ok) =>
          /\ lastPoll.after.error
          /\ lastPoll.after.error_message = lastPoll.err
          /\ lastPoll.after.temp = None
          /\ lastPoll.after.humidity = None

\* a run that polled with failure in its last tick and still returned 0
C7_Witness ==
    /\ pc = "done"
    /\ ret = 0
    /\ lastPoll.idx > 0
    /\ ~lastPoll.ok
    /\ Len(hist[1].rows) = Cycles

\* C8: get_error returns the detail of the most recent failed poll not yet
\* taken and clears it; with no failed poll since the last get_error it
\* returns None.
C8_TakeErrorOnce ==
    [][result'.op = "get_error" => result'.value = pending]_vars

\* a second get_error in a row, after a failed poll, that returned None
C8_Witness ==
    /\ pc = "client"
    /\ result.op = "get_error"
    /\ result.nth = 2
    /\ result.value = NoMsg
    /\ ~lastPoll.ok

\* C9: a Logger whose file could not be opened is never in the list of
\* loggers, and no flush ends the run for lack of a file.
C9_OpenFailureSurfaced ==
    /\ \A j \in 1..Len(loggers) : loggers[j].f = "open"
    /\ exc # "AttributeError"

\* C10: without pin arguments the run does not fail, and it ends with
\* status 0 having driven exactly one logger, on pin 4.
C10_DefaultPin ==
    (Len(args) <= 2 /\ ~IsHelp) =>
       /\ pc # "crashed"
       /\ pc = "done" =>
             /\ ret = 0
             /\ Len(loggers) = 1
             /\ sensors[loggers[1].sensor].pin = 4

\* the valid range of pins, as the claims state it
PinRange == 0..27

\* the pin arguments up to position n that are valid pins, as numbers
ValidUpTo(n) ==
    LET given == [k \in 1..(n - 2) |-> int(args[k + 2])]
    IN  SelectSeq(given, LAMBDA g : g \in PinRange)

PinsOf(lgs) == [j \in 1..Len(lgs) |-> sensors[lgs[j].sensor].pin]

\* C11: a pin argument outside 0..27 is skipped and does not end the run:
\* the loggers are exactly the valid pins in argument order, those built
\* before or after an invalid pin are kept, and the run writes the rows of
\* every valid pin.
C11_InvalidPinSkipped ==
    (\E k \in 3..Len(args) : int(args[k]) \notin PinRange) =>
       /\ pc \notin {"crashed", "exited"}
       /\ PinsOf(loggers) =
             ValidUpTo(IF pc = "start" THEN 2
                       ELSE IF pc = "pins" THEN i - 1 ELSE Len(args))
       /\ pc = "done" => \A j \in 1..Len(loggers) : Len(hist[j].rows) = Cycles

\* pin arguments were given and every one of them is outside the range
AllInvalid ==
    /\ Len(args) > 2
    /\ \A k \in 3..Len(args) : int(args[k]) \notin PinRange

\* C12: when every pin argument is invalid no logger is built and the run
\* is a clean no-op: no poll, no row, no file written, no error, and main
\* goes on to return 0.
C12_NoLoggersNoOp ==
    AllInvalid =>
       /\ sensors = <<>>
       /\ loggers = <<>>
       /\ lastPoll = NoPoll
       /\ \A p \in FilePins : files[p] \in OldFiles
       /\ exc = "None"
       /\ pc \notin {"crashed", "exited"}
       /\ pc = "done" => ret = 0
       /\ pc # "done" => ENABLED Next

\* such a run has returned
C12_Witness ==
    /\ AllInvalid
    /\ Len(args) > 3
    /\ pc = "done"
    /\ ret = 0

\* C13: in a cycle every logger is read once in each tick before the tick's
\* sleep, all the reads of all the ticks come before the first log_data of
\* the cycle, and every logger's log_data has returned before the first read
\* of the next cycle.
C13_FlushBarrier ==
    \A j \in 1..Len(loggers) :
       /\ pc = "sample" =>
             /\ hist[j].ticks =
                   (SamplesPerCycle - samples) + (IF j < i THEN 1 ELSE 0)
             /\ Len(hist[j].rows) = Cycles - readings
       /\ pc = "flush" =>
             IF j < i
             THEN /\ hist[j].ticks = 0
                  /\ Len(hist[j].rows) = Cycles - readings + 1
             ELSE /\ hist[j].ticks = SamplesPerCycle
                  /\ Len(hist[j].rows) = Cycles - readings

\* two loggers in the last cycle, the first flushed and the second not yet
C13_Witness ==
    /\ pc = "flush"
    /\ Len(loggers) = 2
    /\ i = 2
    /\ readings = 1

\* C14: when main has run its cycles and returned, every constructed sensor
\* has been released by Sensor.exit and every log file is closed.
C14_ReleasedAtReturn ==
    (pc = "done" /\ ~IsHelp) =>
       /\ \A k \in 1..Len(sensors) : sensors[k].exited
       /\ \A j \in 1..Len(loggers) : loggers[j].f = "closed"

\* C15: once a log_data call has returned, every row the logger has written
\* (and the header before them) is in the file and nothing is left in the
\* write buffer, so a run that stops at any point loses no finished row.
\* (Each file has one writer: the pins of a run are distinct.)
C15_RowsDurable ==
    \A j \in 1..Len(loggers) :
       LET rows == hist[j].rows
           f == files[loggers[j].datafile]
       IN  Len(rows) > 0 =>
              /\ loggers[j].buf = <<>>
              /\ Len(f) > Len(rows)
              /\ SubSeq(f, Len(f) - Len(rows) + 1, Len(f)) = rows
              /\ f[1] = Header

\* the second row of a logger has just been written to a file that was new
C15_Witness ==
    /\ FlushedNow(1)
    /\ Len(hist[1].rows) = 2
    /\ Len(files[loggers[1].datafile]) = 3

\* a file is empty, or is one header line followed by data rows only
OneHeaderFirst(f) ==
    \/ f = <<>>
    \/ /\ f[1].kind = "header"
       /\ \A k \in 2..Len(f) : f[k].kind = "row"

\* C16: the header is written only to a file that is new or empty when it is
\* opened: whatever earlier runs left in a file (nothing, a header alone, a
\* header and rows) and wherever this run stops, a file that holds anything
\* holds exactly one header, in its first line.
C16_OneHeader == \A p \in FilePins : OneHeaderFirst(files[p])

\* a run has appended its rows to a file that held a header and a row
C16_Witness ==
    /\ pc = "done"
    /\ Len(loggers) = 1
    /\ Len(files[loggers[1].datafile]) = 2 + Cycles
    /\ files[loggers[1].datafile][2].devID = 0

\* C17: in every state the three sample lists of a Logger have the same
\* length.
C17_EqualLengths ==
    \A j \in 1..Len(loggers) :
       /\ Len(loggers[j].tempc) = Len(loggers[j].tempf)
       /\ Len(loggers[j].tempf) = Len(loggers[j].humidity)

\* a window that took readings and then met a failed poll
C17_Witness ==
    /\ Len(loggers) > 0
    /\ Len(loggers[1].tempc) >= 2
    /\ ~lastPoll.ok
    /\ lastPoll.idx = loggers[1].sensor

\* C18: once read_sensor has been called on a Logger, its sensor's error
\* flag is False and its error_message is None after every call, whatever
\* the poll gave and whatever the constructor's poll had left.
C18_ErrorClearedAfterTick ==
    \A j \in 1..Len(loggers) :
       hist[j].total > 0 =>
          /\ ~sensors[loggers[j].sensor].error
          /\ sensors[loggers[j].sensor].error_message = NoMsg

\* the constructor's poll failed, the first tick's reading was dropped for
\* it, and the second tick's reading was appended
C18_Witness ==
    /\ Len(loggers) > 0
    /\ hist[1].total = 2
    /\ Len(hist[1].polls) = 2
    /\ Len(loggers[1].tempc) = 1

\* C19: every element of the three sample lists is a number: no None left
\* by a failed poll is ever appended, and no average is taken over one.
C19_NoNoneSample ==
    /\ exc # "TypeError"
    /\ \A j \in 1..Len(loggers) :
          /\ \A k \in 1..Len(loggers[j].tempc) : loggers[j].tempc[k] # None
          /\ \A k \in 1..Len(loggers[j].tempf) : loggers[j].tempf[k] # None
          /\ \A k \in 1..Len(loggers[j].humidity) :
                loggers[j].humidity[k] # None

\* a tick has just failed on a sensor whose window holds a reading: the
\* sensor's fields are None and the window still holds numbers only
C19_Witness ==
    /\ Len(loggers) > 0
    /\ hist[1].total >= 2
    /\ Len(loggers[1].tempc) >= 1
    /\ ~lastPoll.ok
    /\ lastPoll.idx = loggers[1].sensor
    /\ sensors[loggers[1].sensor].temp = None
    /\ sensors[loggers[1].sensor].humidity = None

\* every constructed Logger has its file
Usable == \A j \in 1..Len(loggers) : loggers[j].f # "unset"

TicksDue == Cycles * SamplesPerCycle

\* the ticks a Logger has had when main is where pc, readings, samples and
\* i say, if every tick is counted once
TicksSoFar(j) ==
    IF pc = "sample"
    THEN (Cycles - readings) * SamplesPerCycle + (SamplesPerCycle - samples)
            + (IF j < i THEN 1 ELSE 0)
    ELSE IF pc = "flush"
    THEN (Cycles - readings + 1) * SamplesPerCycle
    ELSE TicksDue

\* C20: with every Logger's file usable, whatever the polls give, the run
\* ends: each Logger has had exactly Cycles * SamplesPerCycle calls of
\* read_sensor, one per tick with none repeated or added after a failed
\* poll, and main returns 0.
C20_RunTerminates ==
    /\ [](Usable /\ pc \in {"sample", "flush", "cleanup", "done"} =>
             \A j \in 1..Len(loggers) : hist[j].total = TicksSoFar(j))
    /\ (pc = "loop" /\ Usable) ~>
          (/\ pc = "done"
           /\ ret = 0
           /\ \A j \in 1..Len(loggers) : hist[j].total = TicksDue)

\* main has returned from a run of two Loggers whose last poll failed
C20_Witness ==
    /\ pc = "done"
    /\ ret = 0
    /\ Len(loggers) = 2
    /\ \A j \in 1..Len(loggers) :
          loggers[j].f = "closed" /\ hist[j].total = TicksDue
    /\ ~lastPoll.ok

====
